---- MODULE Spec2Model ----
(***************************************************************************)
(* A model of sql_opt_v2.py: the WHERE-clause column extractor, the        *)
(* EXPLAIN plan analyzer, and the periodic transactional task with its     *)
(* polling loop.                                                           *)
(*                                                                         *)
(* Text that the code scans (the query, the access type) is a sequence of  *)
(* one-character strings, so that the regular expressions and upper() are  *)
(* modelled character by character.  Text that the code only copies into   *)
(* a message (table names, index names) is a TLA+ string.                  *)
(***************************************************************************)
EXTENDS Integers, Sequences, FiniteSets, TLC

VARIABLES
    query,              \* analyze_plan_and_suggest / extract_columns_from_where: the argument
    plan,               \* analyze_plan_and_suggest: the argument, a sequence of rows
    pc,                 \* position inside analyze_plan_and_suggest
    candidate_columns,  \* the local of line 86
    i,                  \* index of the next row of `for row in plan`
    suggestions,        \* the local of line 84, a mapping table -> message
    raised,             \* the exception that left the function, or "none"
    input,              \* how the query of the extractor specification was built
    loop,               \* automation_demo: "polling", "in_task", "exited" or "crashed"
    tpc,                \* position inside automated_task
    cursor,             \* the local `cursor`: "unbound", "open" or "closed"
    in_transaction,     \* conn.in_transaction
    pending,            \* the exception in flight, or "none"
    ticks,              \* invocations of automated_task so far
    log                 \* what the current invocation has done so far

analysisVars == <<query, plan, pc, candidate_columns, i, suggestions, raised, input>>
taskVars == <<loop, tpc, cursor, in_transaction, pending, ticks, log>>
vars == <<analysisVars, taskVars>>

(***************************************************************************)
(* Python values                                                           *)
(***************************************************************************)
\* None in a field that otherwise holds a string / a character sequence.
None == [none |-> TRUE, v |-> ""]
NoneText == [none |-> TRUE, v |-> <<>>]
Some(x) == [none |-> FALSE, v |-> x]

LowerCase == <<"a", "b", "c", "d", "e", "f", "g", "h", "i", "j", "k", "l", "m",
               "n", "o", "p", "q", "r", "s", "t", "u", "v", "w", "x", "y", "z">>
UpperCase == <<"A", "B", "C", "D", "E", "F", "G", "H", "I", "J", "K", "L", "M",
               "N", "O", "P", "Q", "R", "S", "T", "U", "V", "W", "X", "Y", "Z">>
Digits == {"0", "1", "2", "3", "4", "5", "6", "7", "8", "9"}
Letters == {LowerCase[k] : k \in 1..26} \cup {UpperCase[k] : k \in 1..26}

\* str.upper() on one character, and on a text.
ToUpper(c) ==
    IF \E k \in 1..26 : LowerCase[k] = c
    THEN UpperCase[CHOOSE k \in 1..26 : LowerCase[k] = c]
    ELSE c
Upper(s) == [k \in 1..Len(s) |-> ToUpper(s[k])]

\* \w and \s of the re module, and `.` without re.DOTALL.
IsWordChar(c) == c \in Letters \cup Digits \cup {"_"}
IsSpace(c) == c \in {" ", "\t", "\n", "\r", "\f"}
IsDot(c) == c # "\n"

\* \b between s[k] and s[k+1] (k = 0 and k = Len(s) are the two ends).
WordBoundary(s, k) ==
    LET before == k >= 1 /\ k <= Len(s) /\ IsWordChar(s[k])
        after == k + 1 >= 1 /\ k + 1 <= Len(s) /\ IsWordChar(s[k + 1])
    IN before # after

\* \bKW\b with re.IGNORECASE matches s from position p on.
KeywordAt(s, p, kw) ==
    /\ p >= 1
    /\ p + Len(kw) - 1 <= Len(s)
    /\ \A k \in 1..Len(kw) : ToUpper(s[p + k - 1]) = kw[k]
    /\ WordBoundary(s, p - 1)
    /\ WordBoundary(s, p + Len(kw) - 1)

\* The text as a TLA+ string.
RECURSIVE Str(_)
Str(s) == IF s = <<>> THEN "" ELSE s[1] \o Str(Tail(s))

\* sep.join(names)
RECURSIVE Join(_, _)
Join(names, sep) ==
    IF names = <<>> THEN ""
    ELSE IF Len(names) = 1 THEN names[1]
    ELSE names[1] \o sep \o Join(Tail(names), sep)

(***************************************************************************)
(* extract_columns_from_where                                              *)
(***************************************************************************)
KW_WHERE == <<"W", "H", "E", "R", "E">>
KW_AND == <<"A", "N", "D">>
KW_OR == <<"O", "R">>

\* re.search(r'\bWHERE\b(.*)', query, re.IGNORECASE): group(1) of the leftmost
\* match, or NoneText.  `(.*)` is greedy and `.` stops before a line feed.
where_clause(q) ==
    LET starts == {p \in 1..Len(q) : KeywordAt(q, p, KW_WHERE)}
    IN IF starts = {} THEN NoneText
       ELSE LET p0 == CHOOSE p \in starts : \A r \in starts : p <= r
                from == p0 + Len(KW_WHERE)
                stops == {e \in from..Len(q) : ~IsDot(q[e])}
                upto == IF stops = {} THEN Len(q)
                        ELSE (CHOOSE e \in stops : \A r \in stops : e <= r) - 1
            IN Some(SubSeq(q, from, upto))

\* re.split(r'\bAND\b|\bOR\b', conditions, flags=re.IGNORECASE): the scan is at
\* `pos`, the current part started at `start`.
RECURSIVE SplitFrom(_, _, _)
SplitFrom(s, start, pos) ==
    IF pos > Len(s) THEN <<SubSeq(s, start, Len(s))>>
    ELSE IF KeywordAt(s, pos, KW_AND)
         THEN <<SubSeq(s, start, pos - 1)>>
              \o SplitFrom(s, pos + Len(KW_AND), pos + Len(KW_AND))
    ELSE IF KeywordAt(s, pos, KW_OR)
         THEN <<SubSeq(s, start, pos - 1)>>
              \o SplitFrom(s, pos + Len(KW_OR), pos + Len(KW_OR))
    ELSE SplitFrom(s, start, pos + 1)
parts(conditions) == SplitFrom(conditions, 1, 1)

\* str.strip()
RECURSIVE LStrip(_)
LStrip(s) == IF s # <<>> /\ IsSpace(s[1]) THEN LStrip(Tail(s)) ELSE s
RECURSIVE RStrip(_)
RStrip(s) ==
    IF s # <<>> /\ IsSpace(s[Len(s)]) THEN RStrip(SubSeq(s, 1, Len(s) - 1)) ELSE s
Strip(s) == RStrip(LStrip(s))

\* The alternatives of the group (=|>|<|>=|<=).
Operators == {<<"=">>, <<">">>, <<"<">>, <<">", "=">>, <<"<", "=">>}
OperatorAt(s, p) ==
    \E op \in Operators :
        /\ p + Len(op) - 1 <= Len(s)
        /\ SubSeq(s, p, p + Len(op) - 1) = op

\* The length of the longest prefix of s[p..] made of characters satisfying
\* the class: greedy `*`.
RECURSIVE SpanWord(_, _)
SpanWord(s, p) ==
    IF p <= Len(s) /\ IsWordChar(s[p]) THEN 1 + SpanWord(s, p + 1) ELSE 0
RECURSIVE SpanSpace(_, _)
SpanSpace(s, p) ==
    IF p <= Len(s) /\ IsSpace(s[p]) THEN 1 + SpanSpace(s, p + 1) ELSE 0

\* re.match(r'\s*([a-zA-Z_][a-zA-Z0-9_]*)\s*(=|>|<|>=|<=)', part.strip()):
\* group(1), or NoneText.  A shorter identifier or a shorter run of spaces
\* would be followed by a character of the same class, so only the greedy
\* choice can match.
match(part) ==
    LET s == Strip(part)
        b == 1 + SpanSpace(s, 1)
        n == SpanWord(s, b)
        o == b + n + SpanSpace(s, b + n)
    IN IF /\ b <= Len(s)
          /\ s[b] \in Letters \cup {"_"}
          /\ OperatorAt(s, o)
       THEN Some(SubSeq(s, b, b + n - 1))
       ELSE NoneText

\* The loop of lines 67-72 over the parts from index k on.
RECURSIVE Columns(_, _)
Columns(ps, k) ==
    IF k > Len(ps) THEN <<>>
    ELSE LET m == match(ps[k])
         IN (IF m.none THEN <<>> ELSE <<Str(m.v)>>) \o Columns(ps, k + 1)

extract_columns_from_where(q) ==
    LET w == where_clause(q)
    IN IF w.none THEN <<>> ELSE Columns(parts(w.v), 1)

(***************************************************************************)
(* analyze_plan_and_suggest                                                *)
(***************************************************************************)
\* A variant of ConsiderMessage that joins the columns with "," alone.
ConsiderMessage_CommaOnly(table, columns) ==
    "Consider adding an index on table '" \o table \o "' "
    \o "for columns: " \o Join(columns, ",") \o "."

\* The f-strings of lines 109-112 and 115-118.
ConsiderMessage(table, columns) ==
    "Consider adding an index on table '" \o table \o "' "
    \o "for columns: " \o Join(columns, ", ") \o "."
ReviewMessage(table) ==
    "Review the WHERE clause for table '" \o table \o "' "
    \o "and consider adding appropriate indexes."
suggestion(table, columns) ==
    IF columns # <<>> THEN ConsiderMessage(table, columns) ELSE ReviewMessage(table)

\* Line 105: type_val.upper() == "ALL".
IsFullScan(row) == Upper(row.type_val.v) = <<"A", "L", "L">>
\* A variant of NoIndex that also takes an empty possible_keys for no index.
NoIndex_OrEmpty(row) ==
    row.possible_keys.none \/ row.possible_keys.v = "" \/ row.key.none

\* Line 107: possible_keys is None or key is None.
NoIndex(row) == row.possible_keys.none \/ row.key.none
\* Lines 105-107: the row stores a suggestion.
Triggers(row) == IsFullScan(row) /\ NoIndex(row)

\* A variant of Store that appends the text to the entry the table already has.
Store_Accumulate(map, table, text) ==
    [t \in DOMAIN map \cup {table} |->
        IF t = table /\ t \in DOMAIN map THEN map[t] \o " " \o text
        ELSE IF t = table THEN text
        ELSE map[t]]

\* suggestions[table] = suggestion
Store(map, table, text) ==
    [t \in DOMAIN map \cup {table} |-> IF t = table THEN text ELSE map[t]]

(***************************************************************************)
(* Inputs of the analysis                                                  *)
(***************************************************************************)
MaxRows == 2

\* The history of one invocation of automated_task.
NewLog ==
    [commits |-> 0, rollbacks |-> 0, closes |-> 0, started |-> FALSE,
     open_at_start |-> FALSE, failed_at |-> "none", interrupted |-> FALSE]

\* The task is not running.
TaskIdle ==
    /\ loop = "polling"
    /\ tpc = "idle"
    /\ cursor = "unbound"
    /\ in_transaction = FALSE
    /\ pending = "none"
    /\ ticks = 0
    /\ log = NewLog

Q_NoWhere == <<"S", "E", "L", "E", "C", "T", " ", "1">>
Q_OneColumn == <<"W", "H", "E", "R", "E", " ", "i", "d", " ", "=", " ", "1">>
Q_TwoColumns == Q_OneColumn \o <<" ", "A", "N", "D", " ", "s", "t", " ", ">", "=", " ", "2">>
AnalysisQueries == {Q_NoWhere, Q_OneColumn, Q_TwoColumns}

Tables == {"orders", "users"}
AccessTypes ==
    {Some(<<"A", "L", "L">>), Some(<<"a", "l", "l">>), Some(<<"r", "e", "f">>),
     NoneText}
PossibleKeys == {None, Some(""), Some("idx_customer")}
Keys == {None, Some("idx_customer")}
\* A row of EXPLAIN, reduced to the four fields the analysis reads; the six
\* others are unpacked by line 102 and never used.
Rows ==
    [table : Tables, type_val : AccessTypes, possible_keys : PossibleKeys,
     key : Keys]
Plans == UNION {[1..n -> Rows] : n \in 0..MaxRows}

NoInput == [head |-> <<>>, kw |-> <<>>, tail |-> <<>>, preds |-> <<>>]

Init ==
    /\ query \in AnalysisQueries
    /\ plan \in Plans
    /\ pc = "start"
    /\ candidate_columns = <<>>
    /\ i = 1
    /\ suggestions = <<>>
    /\ raised = "none"
    /\ input = NoInput
    /\ TaskIdle

\* Lines 84-86.
ComputeCandidates ==
    /\ pc = "start"
    /\ candidate_columns' = extract_columns_from_where(query)
    /\ suggestions' = <<>>
    /\ i' = 1
    /\ pc' = "loop"
    /\ UNCHANGED taskVars
    /\ UNCHANGED <<query, plan, raised, input>>

\* Lines 102-119 for a row whose access type is a string.
AnalyzeRow ==
    /\ pc = "loop"
    /\ i <= Len(plan)
    /\ ~plan[i].type_val.none
    /\ suggestions' =
           IF Triggers(plan[i])
           THEN Store(suggestions, plan[i].table,
                      suggestion(plan[i].table, candidate_columns))
           ELSE suggestions
    /\ i' = i + 1
    /\ UNCHANGED taskVars
    /\ UNCHANGED <<query, plan, pc, candidate_columns, raised, input>>

\* Line 105 for a row whose access type is None: None has no upper().
AnalyzeRowRaises ==
    /\ pc = "loop"
    /\ i <= Len(plan)
    /\ plan[i].type_val.none
    /\ raised' = "AttributeError"
    /\ pc' = "raised"
    /\ UNCHANGED taskVars
    /\ UNCHANGED <<query, plan, candidate_columns, i, suggestions, input>>

\* Line 121.
ReturnSuggestions ==
    /\ pc = "loop"
    /\ i > Len(plan)
    /\ pc' = "returned"
    /\ UNCHANGED taskVars
    /\ UNCHANGED <<query, plan, candidate_columns, i, suggestions, raised, input>>

Next == ComputeCandidates \/ AnalyzeRow \/ AnalyzeRowRaises \/ ReturnSuggestions

Spec == Init /\ [][Next]_vars

(***************************************************************************)
(* The extractor alone, on queries built from a head, the keyword, simple  *)
(* or non-simple predicates, their connectives and a trailing clause.      *)
(***************************************************************************)
MaxPreds == 2

Heads == {<<>>, <<"S", "E", "L", "E", "C", "T", " ", "*", " ", "F", "R", "O", "M", " ", "t">>}
Keywords ==
    {<<" ", "W", "H", "E", "R", "E", " ">>, <<" ", "w", "h", "e", "r", "e", " ">>,
     <<"_", "W", "H", "E", "R", "E", " ">>, <<" ">>}
ColumnNames == {<<"a">>, <<"b", "_", "1">>}
SimpleOps == {<<" ", "=", " ">>, <<">", "=">>}
OtherOps == {<<" ", "L", "I", "K", "E", " ">>}
Values ==
    {<<"1">>, <<"'", "x", "'">>,
     <<"'", "x", " ", "O", "R", " ", "y", " ", "=", " ", "2", "'">>}
Connectives ==
    {<<" ", "A", "N", "D", " ">>, <<" ", "o", "r", " ">>, <<"\n", "A", "N", "D", " ">>}
Tails == {<<>>, <<" ", "G", "R", "O", "U", "P", " ", "B", "Y", " ", "g">>}

Predicates ==
    [join : Connectives, col : ColumnNames, op : SimpleOps \cup OtherOps,
     val : Values]
FirstJoin == <<" ", "A", "N", "D", " ">>
Inputs ==
    [head : Heads, kw : Keywords, tail : Tails,
     preds : {ps \in UNION {[1..n -> Predicates] : n \in 1..MaxPreds} :
                  ps[1].join = FirstJoin}]

\* The query text of an input; the connective of the first predicate is not
\* written.
RECURSIVE RenderPreds(_, _)
RenderPreds(ps, k) ==
    IF k > Len(ps) THEN <<>>
    ELSE (IF k = 1 THEN <<>> ELSE ps[k].join)
         \o ps[k].col \o ps[k].op \o ps[k].val \o RenderPreds(ps, k + 1)
Render(in) == in.head \o in.kw \o RenderPreds(in.preds, 1) \o in.tail

InitExtract ==
    /\ input \in Inputs
    /\ query = Render(input)
    /\ plan = <<>>
    /\ pc = "start"
    /\ candidate_columns = <<>>
    /\ i = 1
    /\ suggestions = <<>>
    /\ raised = "none"
    /\ TaskIdle

\* A call of extract_columns_from_where(query), lines 59-74.
ExtractColumns ==
    /\ pc = "start"
    /\ candidate_columns' = extract_columns_from_where(query)
    /\ pc' = "extracted"
    /\ UNCHANGED taskVars
    /\ UNCHANGED <<query, plan, i, suggestions, raised, input>>

NextExtract == ExtractColumns

SpecExtract == InitExtract /\ [][NextExtract]_vars

(***************************************************************************)
(* automated_task and the polling loop of automation_demo                  *)
(*                                                                         *)
(* Every call on the connection or the cursor either succeeds or raises    *)
(* mysql.connector.Error.  A KeyboardInterrupt can arrive while the loop   *)
(* sleeps or while the task runs.  conn.rollback() in the handler and      *)
(* cursor.close() on a bound cursor are taken to succeed.                  *)
(***************************************************************************)
MaxTicks == 3

TryBody == {"cursor", "transaction", "execute1", "execute2", "commit"}

InitTask ==
    /\ query = <<>>
    /\ plan = <<>>
    /\ pc = "start"
    /\ candidate_columns = <<>>
    /\ i = 1
    /\ suggestions = <<>>
    /\ raised = "none"
    /\ input = NoInput
    /\ loop = "polling"
    /\ tpc = "idle"
    /\ cursor = "unbound"
    \* sql_analysis_demo ran queries on the same connection before the loop.
    /\ in_transaction \in BOOLEAN
    /\ pending = "none"
    /\ ticks = 0
    /\ log = NewLog

\* Line 227: the job is due and schedule.run_pending() calls automated_task.
RunPending ==
    /\ loop = "polling"
    /\ ticks < MaxTicks
    /\ loop' = "in_task"
    /\ tpc' = "cursor"
    /\ cursor' = "unbound"
    /\ pending' = "none"
    /\ ticks' = ticks + 1
    /\ log' = [NewLog EXCEPT !.open_at_start = in_transaction]
    /\ UNCHANGED in_transaction
    /\ UNCHANGED analysisVars

\* A call of the try body raises mysql.connector.Error: control goes to line 207.
RaiseError ==
    /\ pending' = "Error"
    /\ tpc' = "except"
    /\ log' = [log EXCEPT !.failed_at = tpc]

\* Line 185.
AcquireCursor ==
    /\ loop = "in_task" /\ tpc = "cursor"
    /\ cursor' = "open"
    /\ tpc' = "transaction"
    /\ UNCHANGED <<loop, in_transaction, pending, ticks, log>>
    /\ UNCHANGED analysisVars

AcquireCursorFails ==
    /\ loop = "in_task" /\ tpc = "cursor"
    /\ RaiseError
    /\ UNCHANGED <<loop, cursor, in_transaction, ticks>>
    /\ UNCHANGED analysisVars

\* Lines 189-190.
StartTransaction ==
    /\ loop = "in_task" /\ tpc = "transaction"
    /\ IF ~in_transaction
       THEN /\ in_transaction' = TRUE
            /\ log' = [log EXCEPT !.started = TRUE]
       ELSE UNCHANGED <<in_transaction, log>>
    /\ tpc' = "execute1"
    /\ UNCHANGED <<loop, cursor, pending, ticks>>
    /\ UNCHANGED analysisVars

StartTransactionFails ==
    /\ loop = "in_task" /\ tpc = "transaction"
    /\ ~in_transaction
    /\ RaiseError
    /\ UNCHANGED <<loop, cursor, in_transaction, ticks>>
    /\ UNCHANGED analysisVars

\* Lines 193-195 and 198-201: execute and fetchone.
ExecuteQuery ==
    /\ loop = "in_task" /\ tpc \in {"execute1", "execute2"}
    /\ tpc' = IF tpc = "execute1" THEN "execute2" ELSE "commit"
    /\ UNCHANGED <<loop, cursor, in_transaction, pending, ticks, log>>
    /\ UNCHANGED analysisVars

ExecuteQueryFails ==
    /\ loop = "in_task" /\ tpc \in {"execute1", "execute2"}
    /\ RaiseError
    /\ UNCHANGED <<loop, cursor, in_transaction, ticks>>
    /\ UNCHANGED analysisVars

\* Lines 204-205.
Commit ==
    /\ loop = "in_task" /\ tpc = "commit"
    /\ in_transaction' = FALSE
    /\ log' = [log EXCEPT !.commits = @ + 1]
    /\ tpc' = "finally"
    /\ UNCHANGED <<loop, cursor, pending, ticks>>
    /\ UNCHANGED analysisVars

CommitFails ==
    /\ loop = "in_task" /\ tpc = "commit"
    /\ RaiseError
    /\ UNCHANGED <<loop, cursor, in_transaction, ticks>>
    /\ UNCHANGED analysisVars

\* Lines 207-210: the handler of mysql.connector.Error.
Rollback ==
    /\ loop = "in_task" /\ tpc = "except"
    /\ in_transaction' = FALSE
    /\ log' = [log EXCEPT !.rollbacks = @ + 1]
    /\ pending' = "none"
    /\ tpc' = "finally"
    /\ UNCHANGED <<loop, cursor, ticks>>
    /\ UNCHANGED analysisVars

\* Line 212 with `cursor` bound; then the function returns, or the exception
\* that no clause caught goes on to line 229.
CloseCursor ==
    /\ loop = "in_task" /\ tpc = "finally"
    /\ cursor = "open"
    /\ cursor' = "closed"
    /\ log' = [log EXCEPT !.closes = @ + 1]
    /\ tpc' = "idle"
    /\ loop' = IF pending = "KeyboardInterrupt" THEN "exited" ELSE "polling"
    /\ UNCHANGED <<in_transaction, pending, ticks>>
    /\ UNCHANGED analysisVars

\* Line 212 with `cursor` never assigned: the name lookup raises
\* UnboundLocalError, which neither line 207 nor line 229 catches.
CloseCursorUnbound ==
    /\ loop = "in_task" /\ tpc = "finally"
    /\ cursor = "unbound"
    /\ pending' = "UnboundLocalError"
    /\ tpc' = "idle"
    /\ loop' = "crashed"
    /\ UNCHANGED <<cursor, in_transaction, ticks, log>>
    /\ UNCHANGED analysisVars

\* Ctrl+C while the loop polls or sleeps: lines 229-230.
InterruptLoop ==
    /\ loop = "polling"
    /\ loop' = "exited"
    /\ pending' = "KeyboardInterrupt"
    /\ log' = [log EXCEPT !.interrupted = TRUE]
    /\ UNCHANGED <<tpc, cursor, in_transaction, ticks>>
    /\ UNCHANGED analysisVars

\* Ctrl+C while the task runs: KeyboardInterrupt is no mysql.connector.Error,
\* so line 207 does not catch it and only the finally clause runs.
InterruptTask ==
    /\ loop = "in_task" /\ tpc \in TryBody \cup {"except"}
    /\ pending' = "KeyboardInterrupt"
    /\ tpc' = "finally"
    /\ log' = [log EXCEPT !.failed_at = tpc, !.interrupted = TRUE]
    /\ UNCHANGED <<loop, cursor, in_transaction, ticks>>
    /\ UNCHANGED analysisVars



NextTask ==
    \/ RunPending
    \/ AcquireCursor
    \/ AcquireCursorFails
    \/ StartTransaction
    \/ StartTransactionFails
    \/ ExecuteQuery
    \/ ExecuteQueryFails
    \/ Commit
    \/ CommitFails
    \/ Rollback
    \/ CloseCursor
    \/ CloseCursorUnbound
    \/ InterruptLoop
    \/ InterruptTask

SpecTask == InitTask /\ [][NextTask]_vars

(***************************************************************************)
(* Properties                                                              *)
(***************************************************************************)
ALL == <<"A", "L", "L">>
EqualsIgnoreCase(s, t) ==
    Len(s) = Len(t) /\ \A k \in 1..Len(s) : ToUpper(s[k]) = ToUpper(t[k])
RowIsAll(row) == ~row.type_val.none /\ EqualsIgnoreCase(row.type_val.v, ALL)
Indices == 1..Len(plan)

\* C1: the keys of the returned mapping are exactly the tables of the rows
\* whose access type is "ALL" in any letter case and whose possible_keys is
\* None or empty or whose key is None.
C1_KeySet ==
    pc = "returned" =>
        DOMAIN suggestions =
            {plan[k].table : k \in
                {j \in Indices :
                    /\ RowIsAll(plan[j])
                    /\ \/ plan[j].possible_keys.none
                       \/ plan[j].possible_keys.v = ""
                       \/ plan[j].key.none}}

\* Some other row of the table of row k stores a suggestion.
OtherRowTriggers(k) ==
    \E j \in Indices \ {k} :
        /\ plan[j].table = plan[k].table
        /\ RowIsAll(plan[j])
        /\ (plan[j].possible_keys.none \/ plan[j].key.none)

ExpectedColumnList ==
    IF query = Q_NoWhere THEN ""
    ELSE IF query = Q_OneColumn THEN "id"
    ELSE "id, st"

\* C3: every stored text is the "Consider adding an index" sentence with the
\* columns of the query joined by ", " when the query has candidate columns,
\* and the "Review the WHERE clause" sentence when it has none; the list is
\* that of the query for every row.
C3_Text ==
    /\ pc # "start" =>
           candidate_columns =
               (IF query = Q_NoWhere THEN <<>>
                ELSE IF query = Q_OneColumn THEN <<"id">>
                ELSE <<"id", "st">>)
    /\ \A t \in DOMAIN suggestions :
           suggestions[t] =
               IF query = Q_NoWhere
               THEN "Review the WHERE clause for table '" \o t
                    \o "' and consider adding appropriate indexes."
               ELSE "Consider adding an index on table '" \o t
                    \o "' for columns: " \o ExpectedColumnList \o "."

C3_Witness ==
    /\ pc = "returned"
    /\ query = Q_TwoColumns
    /\ Cardinality(DOMAIN suggestions) = 2

\* The rows that stored a suggestion, by the test of lines 105-107.
Storing == {k \in Indices : Triggers(plan[k])}
LastStoring(t) ==
    CHOOSE k \in Storing :
        /\ plan[k].table = t
        /\ \A j \in Storing : plan[j].table = t => j <= k

\* C5: the mapping has one entry for each distinct table among the rows that
\* trigger a suggestion, and the entry is the message of the last such row
\* of the table.
C5_LastWins ==
    pc = "returned" =>
        /\ Cardinality(DOMAIN suggestions)
               = Cardinality({plan[k].table : k \in Storing})
        /\ \A t \in DOMAIN suggestions :
               /\ \E k \in Storing : plan[k].table = t
               /\ suggestions[t]
                      = suggestion(plan[LastStoring(t)].table, candidate_columns)

C5_Witness ==
    /\ pc = "returned"
    /\ Len(plan) >= 2
    /\ plan[1].table = plan[2].table
    /\ Triggers(plan[1])
    /\ Triggers(plan[2])
    /\ Cardinality(DOMAIN suggestions) = 1

\* C6: no call of the extractor or of the analysis raises, whichever fields
\* of a row are None.
C6_NeverRaises == raised = "none"

IsWhereKeyword(kw) ==
    /\ Len(kw) = 7
    /\ ~IsWordChar(kw[1])
    /\ EqualsIgnoreCase(SubSeq(kw, 2, 6), KW_WHERE)
InputColumns == [k \in 1..Len(input.preds) |-> Str(input.preds[k].col)]

\* C4: for a clause made only of simple predicates joined by AND/OR, the
\* result is the columns of the predicates, one each, in order, whatever the
\* values are.
C4_SimplePredicates ==
    (/\ pc = "extracted"
     /\ IsWhereKeyword(input.kw)
     /\ input.tail = <<>>
     /\ \A k \in 1..Len(input.preds) : input.preds[k].op \in SimpleOps)
        => candidate_columns = InputColumns

\* C9: the clause is all the text after the first WHERE up to the end of
\* the query, so that every simple predicate with a plain value contributes
\* its column; without the keyword the result is empty.
C9_WholeRest ==
    pc = "extracted" =>
        IF IsWhereKeyword(input.kw)
        THEN /\ where_clause(query)
                    = Some(<<" ">> \o RenderPreds(input.preds, 1) \o input.tail)
             /\ (\A k \in 1..Len(input.preds) :
                     /\ input.preds[k].op \in SimpleOps
                     /\ input.preds[k].val = <<"1">>)
                    => candidate_columns = InputColumns
        ELSE candidate_columns = <<>>

\* An invocation of automated_task has ended.
InvocationEnded == ticks > 0 /\ tpc = "idle"

\* C7: an invocation ends with exactly one of commit and rollback, commit
\* exactly when no step failed, starts a transaction only when none was
\* open, and leaves none open.
C7_CommitOrRollback ==
    InvocationEnded =>
        /\ log.commits + log.rollbacks = 1
        /\ (log.commits = 1) <=> (log.failed_at = "none")
        /\ log.started => ~log.open_at_start
        /\ ~in_transaction

\* C8: after a database error at any step the task has rolled back and the
\* loop polls on; nothing but an interrupt ends the loop.
C8_LoopKeepsRunning ==
    /\ (InvocationEnded /\ log.failed_at # "none" /\ ~log.interrupted)
           => (log.rollbacks = 1 /\ loop = "polling")
    /\ loop \in {"exited", "crashed"} => log.interrupted

\* C10: a cursor that was acquired is closed exactly once when the
\* invocation ends, and the release step neither fails nor reads a cursor
\* that was never acquired.
C10_CursorReleased ==
    InvocationEnded =>
        /\ log.closes = (IF cursor = "unbound" THEN 0 ELSE 1)
        /\ cursor # "open"
        /\ pending # "UnboundLocalError"

====
